---- MODULE Spec2Model ----
(***************************************************************************)
(* A model of the rencode codec of the deluge crate: the Encoder of        *)
(* src/rencode.rs, the Decoder of src/rencode/decoder.rs and the generic   *)
(* Value of src/rencode/value.rs.                                          *)
(*                                                                         *)
(* Bytes are the integers 0..255.  A fixed-width integer or float is the   *)
(* tuple of its bytes, most significant first (two's complement, IEEE-754  *)
(* bits), so that every width of the code keeps its width; a string is the *)
(* tuple of its UTF-8 bytes.                                               *)
(***************************************************************************)
EXTENDS Integers, Sequences, FiniteSets, TLC

VARIABLES
    pc,       \* "encode" | "encoded" | "decode" | "call" | "ret" | "decoded" | "probe"
    value,    \* the Value handed to encode (NoValue when the run decodes bytes)
    lenhint,  \* "some": the Value serializes itself, its visitor reporting its
              \* length; "none": its items come from a visitor whose len() is None
    writer,   \* Encoder.writer, the output buffer
    reader,   \* Decoder.reader, the whole input of the byte source
    pos,      \* number of bytes the Decoder has read from the byte source
    peek,     \* Decoder.peek: NoPeek, or the buffered byte
    stack,    \* the containers being decoded, innermost last: one frame for
              \* each visit_seq / visit_map in progress
    ret,      \* what the Decoder::visit that just returned gave its caller
    result,   \* the outcome of decode
    trace,    \* ghost: the returns of the decoder's methods, in order
    wire,     \* ghost: the structure the input bytes were laid out from (or NoWire)
    last      \* ghost: the latest direct call of peek or next and what it returned

vars == <<pc, value, lenhint, writer, reader, pos, peek, stack, ret, result, trace, wire, last>>

(***************************************************************************)
(* Type codes (src/rencode/consts.rs; the same values in src/rencode.rs).  *)
(***************************************************************************)
LIST == 59
DICT == 60
I8 == 62
I16 == 63
I32 == 64
I64 == 65
F32 == 66
F64 == 44
TRUE_ == 67
FALSE_ == 68
NONE == 69
TERM == 127

(***************************************************************************)
(* Ranges of the decoder (src/rencode/decoder.rs).                         *)
(***************************************************************************)
INT_POS_FIXED_START == 0
INT_POS_FIXED_COUNT == 44
INT_POS_FIXED_END == INT_POS_FIXED_START + INT_POS_FIXED_COUNT - 1
INT_NEG_FIXED_START == 70
INT_NEG_FIXED_COUNT == 32
INT_NEG_FIXED_END == INT_NEG_FIXED_START + INT_NEG_FIXED_COUNT - 1
STR_FIXED_START == 128
STR_FIXED_COUNT == 64
STR_FIXED_END == STR_FIXED_START + STR_FIXED_COUNT - 1
LIST_FIXED_START == STR_FIXED_START + STR_FIXED_COUNT
LIST_FIXED_COUNT == 64
LIST_FIXED_END == LIST_FIXED_START - 1 + LIST_FIXED_COUNT
DICT_FIXED_START == 102
DICT_FIXED_COUNT == 25
DICT_FIXED_END == DICT_FIXED_START + DICT_FIXED_COUNT - 1

(***************************************************************************)
(* Ranges of the encoder (src/rencode.rs), which declares its own.         *)
(***************************************************************************)
I8_MIN == -128
I8_MAX == 127
I16_MIN == -32768
I16_MAX == 32767
I32_MIN == -2147483647 - 1
I32_MAX == 2147483647
Enc_INT_POS_FIXED_START == 0
Enc_INT_POS_FIXED_COUNT == 44
Enc_INT_NEG_FIXED_START == 70
Enc_INT_NEG_FIXED_COUNT == -32
Enc_STR_FIXED_START == 128
Enc_STR_FIXED_COUNT == 64
Enc_LIST_FIXED_START == Enc_STR_FIXED_START + Enc_STR_FIXED_COUNT
Enc_LIST_FIXED_COUNT == 64
Enc_DICT_FIXED_START == 102
Enc_DICT_FIXED_COUNT == 25

Byte == 0..255

(***************************************************************************)
(* Fixed-width integers as byte tuples.                                    *)
(***************************************************************************)
\* n copies of the byte b
Repeat(b, n) == [i \in 1..n |-> b]

\* the w low-order bytes of the natural number n < 2^31, most significant first
RECURSIVE NatBytes(_, _)
NatBytes(n, w) == IF w = 0 THEN <<>> ELSE Append(NatBytes(n \div 256, w - 1), n % 256)

\* `n as i64` for a 32-bit n: the 8 bytes of its two's complement
I64FromInt(n) ==
    IF n >= 0 THEN Repeat(0, 4) \o NatBytes(n, 4)
    ELSE LET m == (n + 2147483647) + 1     \* n + 2^31, the low 31 bits
             b == NatBytes(m, 4)
         IN  Repeat(255, 4) \o <<b[1] + 128, b[2], b[3], b[4]>>

\* `v as i64` for a narrower signed v: sign extension
SignExtend(bs) ==
    Repeat(IF bs[1] >= 128 THEN 255 ELSE 0, 8 - Len(bs)) \o bs

\* `v as iN` for an i64 v: the N/8 low-order bytes
Truncate(v, w) == SubSeq(v, Len(v) - w + 1, Len(v))

\* an i8 (one byte) as a number
I8ToInt(bs) == IF bs[1] >= 128 THEN bs[1] - 256 ELSE bs[1]

\* byte-wise lexicographic a <= b on tuples of one length
LexLe(a, b) ==
    \/ a = b
    \/ \E i \in 1..Len(a) :
          /\ a[i] < b[i]
          /\ \A j \in 1..(i - 1) : a[j] = b[j]

\* a <= b on i64: the sign bit flipped, then unsigned order
I64Le(a, b) ==
    LET flip(x) == [x EXCEPT ![1] = (@ + 128) % 256]
    IN  LexLe(flip(a), flip(b))

\* the match arm `lo ... hi` (both ends included) on an i64
InRange(v, lo, hi) == I64Le(I64FromInt(lo), v) /\ I64Le(v, I64FromInt(hi))

\* the concatenation of the sequences ss[lo..hi], split in halves
RECURSIVE FlattenRange(_, _, _)
FlattenRange(ss, lo, hi) ==
    IF lo > hi THEN <<>>
    ELSE IF lo = hi THEN ss[lo]
    ELSE LET mid == (lo + hi) \div 2
         IN  FlattenRange(ss, lo, mid) \o FlattenRange(ss, mid + 1, hi)
Flatten(ss) == FlattenRange(ss, 1, Len(ss))

\* the ASCII decimal digits of the natural number n ("{}" of a usize)
RECURSIVE Decimal(_)
Decimal(n) ==
    IF n < 10 THEN <<48 + n>> ELSE Append(Decimal(n \div 10), 48 + (n % 10))

(***************************************************************************)
(* The generic Value (src/rencode/value.rs).  A Dict is the sequence of    *)
(* its <<key, value>> entries in ascending key order, as a BTreeMap        *)
(* iterates them.                                                          *)
(***************************************************************************)
\* a Value is <<tag, payload>>
VNone == <<"None", <<>>>>
VBool(b) == <<"Bool", b>>
VI64(bs) == <<"I64", bs>>
VU64(bs) == <<"U64", bs>>
VF64(bs) == <<"F64", bs>>
VString(s) == <<"String", s>>
VList(xs) == <<"List", xs>>
VDict(es) == <<"Dict", es>>
NoValue == <<"NoValue", <<>>>>
Tag(x) == x[1]
Payload(x) == x[2]

\* String order: a < b, byte-wise lexicographic, a proper prefix first
StrLess(a, b) ==
    \/ /\ Len(a) < Len(b)
       /\ \A j \in 1..Len(a) : a[j] = b[j]
    \/ \E i \in 1..(IF Len(a) < Len(b) THEN Len(a) ELSE Len(b)) :
          /\ a[i] < b[i]
          /\ \A j \in 1..(i - 1) : a[j] = b[j]

\* BTreeMap::insert on the sorted entries: a present key has its value replaced
BTreeInsert(es, k, x) ==
    LET before == SelectSeq(es, LAMBDA e : StrLess(e[1], k))
        after == SelectSeq(es, LAMBDA e : StrLess(k, e[1]))
    IN  before \o <<<<k, x>>>> \o after

\* f64: the bits are a NaN / a zero of either sign
IsNaN(bs) ==
    /\ bs[1] % 128 = 127
    /\ bs[2] >= 240
    /\ \/ bs[2] > 240
       \/ \E i \in 3..8 : bs[i] # 0
IsZero(bs) == bs[1] % 128 = 0 /\ \A i \in 2..8 : bs[i] = 0

\* f64 == f64
F64Eq(a, b) == ~IsNaN(a) /\ ~IsNaN(b) /\ (a = b \/ (IsZero(a) /\ IsZero(b)))

\* #[derive(PartialEq)] for Value
RECURSIVE ValueEq(_, _)
ValueEq(a, b) ==
    /\ Tag(a) = Tag(b)
    /\ CASE Tag(a) = "F64" -> F64Eq(Payload(a), Payload(b))
         [] Tag(a) = "List" ->
              /\ Len(Payload(a)) = Len(Payload(b))
              /\ \A i \in 1..Len(Payload(a)) : ValueEq(Payload(a)[i], Payload(b)[i])
         [] Tag(a) = "Dict" ->
              /\ Len(Payload(a)) = Len(Payload(b))
              /\ \A i \in 1..Len(Payload(a)) :
                    /\ Payload(a)[i][1] = Payload(b)[i][1]
                    /\ ValueEq(Payload(a)[i][2], Payload(b)[i][2])
         [] OTHER -> Payload(a) = Payload(b)

(***************************************************************************)
(* The Encoder (src/rencode.rs).  Each visit_* is the bytes it appends to  *)
(* the writer; a Vec writer never fails.                                   *)
(***************************************************************************)
Encoder_visit_bool(v) == <<IF v THEN TRUE_ ELSE FALSE_>>

Encoder_visit_i64(v) ==
    IF InRange(v, Enc_INT_NEG_FIXED_COUNT, -1)
    THEN <<(Enc_INT_NEG_FIXED_START - 1 - I8ToInt(Truncate(v, 1))) % 256>>
    ELSE IF InRange(v, 0, Enc_INT_POS_FIXED_COUNT)
    THEN <<(Enc_INT_POS_FIXED_START + Truncate(v, 1)[1]) % 256>>
    ELSE IF InRange(v, I8_MIN, I8_MAX) THEN <<I8>> \o Truncate(v, 1)
    ELSE IF InRange(v, I16_MIN, I16_MAX) THEN <<I16>> \o Truncate(v, 2)
    ELSE IF InRange(v, I32_MIN, I32_MAX) THEN <<I32>> \o Truncate(v, 4)
    ELSE <<I64>> \o v

\* `v as i64` of a u64 keeps the 64 bits
Encoder_visit_u64(v) == Encoder_visit_i64(v)

Encoder_visit_f64(v) == <<F64>> \o v

Encoder_visit_none == <<NONE>>

\* a visit_str that would use the fixed form up to the limit itself
Encoder_visit_str_upto(v) ==
    IF Len(v) <= Enc_STR_FIXED_COUNT
    THEN <<(Enc_STR_FIXED_START + Len(v)) % 256>> \o v
    ELSE Decimal(Len(v)) \o <<58>> \o v

Encoder_visit_str(v) ==
    IF Len(v) < Enc_STR_FIXED_COUNT
    THEN <<(Enc_STR_FIXED_START + Len(v)) % 256>> \o v
    ELSE Decimal(Len(v)) \o <<58>> \o v

RECURSIVE serialize(_)

\* visit_seq_elt
Encoder_visit_seq_elt(v) == serialize(v)

\* visit_map_elt: the key (a String), then the value
Encoder_visit_map_elt(k, v) == Encoder_visit_str(k) \o serialize(v)

\* `while let Some(_) = try!(v.visit(self)) {}` over a SeqSerializer: every
\* item in turn
SeqSerializer_visit_all(items) ==
    Flatten([i \in 1..Len(items) |-> Encoder_visit_seq_elt(items[i])])

\* the same loop over a MapSerializer: every entry in key order
MapSerializer_visit_all(entries) ==
    Flatten([i \in 1..Len(entries) |-> Encoder_visit_map_elt(entries[i][1], entries[i][2])])

\* visit_seq / visit_map that would use the fixed form up to the limit itself
Encoder_visit_seq_upto(items, len) ==
    IF len # -1 /\ len <= Enc_LIST_FIXED_COUNT
    THEN <<(Enc_LIST_FIXED_START + len) % 256>> \o SeqSerializer_visit_all(items)
    ELSE <<LIST>> \o SeqSerializer_visit_all(items) \o <<TERM>>

Encoder_visit_map_upto(entries, len) ==
    IF len # -1 /\ len <= Enc_DICT_FIXED_COUNT
    THEN <<(Enc_DICT_FIXED_START + len) % 256>> \o MapSerializer_visit_all(entries)
    ELSE <<DICT>> \o MapSerializer_visit_all(entries) \o <<TERM>>

\* len is what the visitor's len() reports: -1 for None, n for Some(n)
Encoder_visit_seq(items, len) ==
    IF len # -1 /\ len < Enc_LIST_FIXED_COUNT
    THEN <<(Enc_LIST_FIXED_START + len) % 256>> \o SeqSerializer_visit_all(items)
    ELSE <<LIST>> \o SeqSerializer_visit_all(items) \o <<TERM>>

Encoder_visit_map(entries, len) ==
    IF len # -1 /\ len < Enc_DICT_FIXED_COUNT
    THEN <<(Enc_DICT_FIXED_START + len) % 256>> \o MapSerializer_visit_all(entries)
    ELSE <<DICT>> \o MapSerializer_visit_all(entries) \o <<TERM>>

\* impl Serialize for Value
serialize(val) ==
    CASE Tag(val) = "None" -> Encoder_visit_none
      [] Tag(val) = "Bool" -> Encoder_visit_bool(Payload(val))
      [] Tag(val) = "I64" -> Encoder_visit_i64(Payload(val))
      [] Tag(val) = "U64" -> Encoder_visit_u64(Payload(val))
      [] Tag(val) = "F64" -> Encoder_visit_f64(Payload(val))
      [] Tag(val) = "String" -> Encoder_visit_str(Payload(val))
      [] Tag(val) = "List" -> Encoder_visit_seq(Payload(val), Len(Payload(val)))
      [] Tag(val) = "Dict" -> Encoder_visit_map(Payload(val), Len(Payload(val)))

\* pub fn encode: a new Encoder over an empty Vec, then serialize
encode(val) == serialize(val)

(***************************************************************************)
(* The Decoder (src/rencode/decoder.rs).  The decoder's state is the       *)
(* record d = [pos, peek]: the bytes read from the source so far and the   *)
(* lookahead buffer.  A Result is a record [ok, val, err, d]: Ok(val) or   *)
(* Err(err), with the decoder state the call leaves.                       *)
(***************************************************************************)
NoPeek == -1

Ok(v, d) == [ok |-> TRUE, val |-> v, err |-> "", d |-> d]
Err(e, d) == [ok |-> FALSE, val |-> <<>>, err |-> e, d |-> d]

\* byteorder's read_full on a slice: n bytes, or UnexpectedEOF with the
\* source drained
read_full(rdr, d, n) ==
    IF n <= Len(rdr) - d.pos
    THEN Ok(SubSeq(rdr, d.pos + 1, d.pos + n), [d EXCEPT !.pos = @ + n])
    ELSE Err("UnexpectedEOF", [d EXCEPT !.pos = Len(rdr)])

\* a next() that would read the source whatever the lookahead holds
Decoder_next_unbuffered(rdr, d) ==
    LET r == read_full(rdr, [d EXCEPT !.peek = NoPeek], 1)
    IN  IF r.ok THEN Ok(r.val[1], r.d) ELSE r

Decoder_next(rdr, d) ==
    IF d.peek # NoPeek
    THEN Ok(d.peek, [d EXCEPT !.peek = NoPeek])
    ELSE LET r == read_full(rdr, d, 1)
         IN  IF r.ok THEN Ok(r.val[1], r.d) ELSE r

\* a peek() that would keep what is buffered and read only when nothing is
Decoder_peek_idempotent(rdr, d) ==
    IF d.peek # NoPeek THEN Ok(d.peek, d)
    ELSE LET r == read_full(rdr, d, 1)
         IN  IF r.ok THEN Ok(r.val[1], [r.d EXCEPT !.peek = r.val[1]]) ELSE r

Decoder_peek(rdr, d) ==
    LET r == Decoder_next(rdr, [d EXCEPT !.peek = NoPeek])
    IN  IF r.ok THEN Ok(r.val, [r.d EXCEPT !.peek = r.val]) ELSE r

\* the bytes from index i of the source on
Rest(rdr, i) == SubSeq(rdr, i, Len(rdr))

\* take_while(pred): accept is the set of bytes pred holds of.  The loop
\* calls next() until a byte fails pred, and drops that byte; the first
\* next() empties the lookahead, so the later ones read the source.
Decoder_take_while(rdr, d, accept) ==
    LET first == Decoder_next(rdr, d)
        more == Rest(rdr, first.d.pos + 1)
        stops == {i \in 1..Len(more) : more[i] \notin accept}
        stop == CHOOSE i \in stops : \A j \in stops : i <= j
    IN  IF ~first.ok THEN first
        ELSE IF first.val \notin accept THEN Ok(<<>>, first.d)
        ELSE IF stops = {}
        THEN Err("UnexpectedEOF", [first.d EXCEPT !.pos = Len(rdr)])
        ELSE Ok(<<first.val>> \o SubSeq(more, 1, stop - 1),
                [first.d EXCEPT !.pos = @ + stop])

\* take(n): n calls of next(), of which the first empties the lookahead
Decoder_take(rdr, d, n) ==
    LET first == Decoder_next(rdr, d)
        more == read_full(rdr, first.d, n - 1)
    IN  IF n = 0 THEN Ok(<<>>, d)
        ELSE IF ~first.ok THEN first
        ELSE IF ~more.ok THEN more
        ELSE Ok(<<first.val>> \o more.val, more.d)

\* String::from_utf8 succeeds: every byte that is no continuation byte
\* starts a character, followed by exactly the continuation bytes it asks for
IsUtf8(bs) ==
    LET n == Len(bs)
        Cont(j) == j <= n /\ bs[j] \in 128..191
        In(j, lo, hi) == j <= n /\ bs[j] \in lo..hi
        Ends(j) == ~Cont(j)
        Char(i) ==
            LET b == bs[i]
            IN  IF b < 128 THEN Ends(i + 1)
                ELSE IF b \in 194..223 THEN Cont(i + 1) /\ Ends(i + 2)
                ELSE IF b = 224 THEN In(i + 1, 160, 191) /\ Cont(i + 2) /\ Ends(i + 3)
                ELSE IF b \in 225..236 \/ b \in 238..239
                THEN Cont(i + 1) /\ Cont(i + 2) /\ Ends(i + 3)
                ELSE IF b = 237 THEN In(i + 1, 128, 159) /\ Cont(i + 2) /\ Ends(i + 3)
                ELSE IF b = 240
                THEN In(i + 1, 144, 191) /\ Cont(i + 2) /\ Cont(i + 3) /\ Ends(i + 4)
                ELSE IF b \in 241..243
                THEN Cont(i + 1) /\ Cont(i + 2) /\ Cont(i + 3) /\ Ends(i + 4)
                ELSE IF b = 244
                THEN In(i + 1, 128, 143) /\ Cont(i + 2) /\ Cont(i + 3) /\ Ends(i + 4)
                ELSE FALSE
    IN  /\ ~Cont(1)
        /\ \A i \in 1..n : Cont(i) \/ Char(i)

\* the digits of usize::MAX on a 64-bit target, "18446744073709551615"
UsizeMaxDigits ==
    <<49, 56, 52, 52, 54, 55, 52, 52, 48, 55, 51, 55, 48, 57, 53, 53, 49, 54, 49, 53>>

\* a usize is 64 bits wide: its 8 bytes, most significant first.
\* x * 10 + digit on the bytes k..1 (from the least significant one), with
\* the carry out of the most significant byte
RECURSIVE U64MulAdd(_, _, _)
U64MulAdd(bs, k, carry) ==
    IF k = 0 THEN [val |-> bs, carry |-> carry]
    ELSE LET t == bs[k] * 10 + carry
         IN  U64MulAdd([bs EXCEPT ![k] = t % 256], k - 1, t \div 256)

\* the digit loop of from_str_radix: checked_mul(10), checked_add(digit);
\* a byte that is no digit, or an overflow, is an error
RECURSIVE ParseDigits(_, _, _)
ParseDigits(digits, i, acc) ==
    IF i > Len(digits) THEN [ok |-> TRUE, val |-> acc]
    ELSE IF digits[i] \notin 48..57 THEN [ok |-> FALSE, val |-> Repeat(0, 8)]
    ELSE LET r == U64MulAdd(acc, 8, digits[i] - 48)
         IN  IF r.carry > 0 THEN [ok |-> FALSE, val |-> Repeat(0, 8)]
             ELSE ParseDigits(digits, i + 1, r.val)

\* str::parse::<usize>: [ok, val], val the 8 bytes of the usize.  One
\* leading "+" is accepted; no digit at all is an error.
ParseUsize(bs) ==
    LET digits == IF bs # <<>> /\ bs[1] = 43 THEN Tail(bs) ELSE bs
    IN  IF digits = <<>> THEN [ok |-> FALSE, val |-> Repeat(0, 8)]
        ELSE ParseDigits(digits, 1, Repeat(0, 8))

\* the number held in the bytes bs, most significant first, is at most the
\* natural number k: 256 * front + last <= k
RECURSIVE U64Le(_, _)
U64Le(bs, k) ==
    IF bs = <<>> THEN TRUE
    ELSE /\ k >= bs[Len(bs)]
         /\ U64Le(SubSeq(bs, 1, Len(bs) - 1), (k - bs[Len(bs)]) \div 256)

\* take(num) for a num of the full usize width.  take calls next() until num
\* bytes are read or the reader ends: a num above the number of bytes that
\* are left (the buffered one counted) drains the reader and fails; any
\* other num is one of 0..left, and that many bytes are taken
Decoder_take_usize(rdr, d, num) ==
    LET left == (Len(rdr) - d.pos) + (IF d.peek = NoPeek THEN 0 ELSE 1)
    IN  IF ~U64Le(num, left)
        THEN Err("UnexpectedEOF", [d EXCEPT !.pos = Len(rdr), !.peek = NoPeek])
        ELSE Decoder_take(rdr, d,
                 CHOOSE n \in 0..left :
                     U64Le(num, n) /\ (n = 0 \/ ~U64Le(num, n - 1)))

Decoder_parse_string(rdr, d) ==
    LET t == Decoder_take_while(rdr, d, Byte \ {58})
        n == ParseUsize(t.val)
        s == Decoder_take_usize(rdr, t.d, n.val)
    IN  IF ~t.ok THEN t
        ELSE IF ~IsUtf8(t.val) THEN Err("FromUtf8Error", t.d)
        ELSE IF ~n.ok THEN Err("ParseIntError", t.d)
        ELSE IF ~s.ok THEN s
        ELSE IF ~IsUtf8(s.val) THEN Err("FromUtf8Error", s.d)
        ELSE Ok(s.val, s.d)

\* a parse_embed_string that would leave the header in the lookahead buffer
Decoder_parse_embed_string_replays(rdr, d, byte) ==
    LET len == byte - STR_FIXED_START
        s == Decoder_take(rdr, d, len)
    IN  IF ~s.ok THEN s
        ELSE IF ~IsUtf8(s.val) THEN Err("FromUtf8Error", s.d)
        ELSE Ok(s.val, s.d)

Decoder_parse_embed_string(rdr, d, byte) ==
    LET len == byte - STR_FIXED_START
        s == Decoder_take(rdr, [d EXCEPT !.peek = NoPeek], len)
    IN  IF ~s.ok THEN s
        ELSE IF ~IsUtf8(s.val) THEN Err("FromUtf8Error", s.d)
        ELSE Ok(s.val, s.d)

\* the fixed-width reads go to the reader, past the lookahead buffer
\* a parse_i32 that would take a short payload as it is, zeros for the rest
Decoder_parse_i32_lenient(rdr, d) ==
    LET have == SubSeq(rdr, d.pos + 1, Len(rdr))
    IN  IF Len(have) >= 4 THEN read_full(rdr, d, 4)
        ELSE Ok(have \o Repeat(0, 4 - Len(have)), [d EXCEPT !.pos = Len(rdr)])

Decoder_parse_i8(rdr, d) == read_full(rdr, d, 1)
Decoder_parse_i16(rdr, d) == read_full(rdr, d, 2)
Decoder_parse_i32(rdr, d) == read_full(rdr, d, 4)
Decoder_parse_i64(rdr, d) == read_full(rdr, d, 8)
Decoder_parse_f32(rdr, d) == read_full(rdr, d, 4)
Decoder_parse_f64(rdr, d) == read_full(rdr, d, 8)

\* a negative embedded range that would start at 0: 70 -> 0
Decoder_parse_embed_neg_from_zero(d, byte) ==
    Ok(<<(256 - ((byte - INT_NEG_FIXED_START) % 256)) % 256>>, d)

\* both give an i8, one byte
Decoder_parse_embed_pos(d, byte) == Ok(<<(byte - INT_POS_FIXED_START) % 256>>, d)
Decoder_parse_embed_neg(d, byte) ==
    Ok(<<(256 - ((byte - INT_NEG_FIXED_START + 1) % 256)) % 256>>, d)

\* FixedVisitor { decoder, count: 0, len }
Decoder_build_fixed_visitor(d, len) ==
    [d |-> [d EXCEPT !.peek = NoPeek],
     sv |-> [kind |-> "FixedVisitor", count |-> 0, len |-> len]]

\* the Decoder itself as the visitor of an open list or map
DecoderVisitor == [kind |-> "Decoder", count |-> 0, len |-> 0]

(***************************************************************************)
(* The visitors (src/rencode/value.rs, and serde's for a String key).      *)
(***************************************************************************)
\* the position of the highest set bit of m > 0
RECURSIVE HighBit(_)
HighBit(m) == IF m < 2 THEN 0 ELSE 1 + HighBit(m \div 2)

RECURSIVE Pow2(_)
Pow2(k) == IF k = 0 THEN 1 ELSE 2 * Pow2(k - 1)

\* the f64 of sign s, biased exponent e and the 23 leading mantissa bits m
PackF64(s, e, m) ==
    <<s * 128 + (e \div 16), (e % 16) * 16 + (m \div 524288), (m \div 2048) % 256,
      (m \div 8) % 256, (m % 8) * 32, 0, 0, 0>>

\* `v as f64` for an f32: exact; a NaN comes out quiet
F32ToF64(bs) ==
    LET s == bs[1] \div 128
        e == (bs[1] % 128) * 2 + (bs[2] \div 128)
        m == (bs[2] % 128) * 65536 + bs[3] * 256 + bs[4]
        k == HighBit(m)
    IN  IF e = 255
        THEN PackF64(s, 2047, IF m = 0 \/ m >= 4194304 THEN m ELSE m + 4194304)
        ELSE IF e = 0
        THEN IF m = 0 THEN PackF64(s, 0, 0)
             ELSE PackF64(s, 1023 - 149 + k, (m * Pow2(23 - k)) % 8388608)
        ELSE PackF64(s, e - 127 + 1023, m)

\* ValueVisitor
ValueVisitor_visit_none == VNone
ValueVisitor_visit_bool(v) == VBool(v)
ValueVisitor_visit_i64(v) == VI64(v)
ValueVisitor_visit_f64(v) == VF64(v)
ValueVisitor_visit_string(v) == VString(v)
ValueVisitor_visit_seq(values) == VList(values)
ValueVisitor_visit_map(values) == VDict(values)

\* visitor.visit_*(v): the ValueVisitor answers every one; serde's
\* StringVisitor answers visit_string and leaves the others to the default,
\* a syntax error
visit_none(visitor, d) ==
    IF visitor = "ValueVisitor" THEN Ok(ValueVisitor_visit_none, d) ELSE Err("Syntax", d)
visit_bool(visitor, v, d) ==
    IF visitor = "ValueVisitor" THEN Ok(ValueVisitor_visit_bool(v), d) ELSE Err("Syntax", d)
visit_i64(visitor, v, d) ==
    IF visitor = "ValueVisitor" THEN Ok(ValueVisitor_visit_i64(v), d) ELSE Err("Syntax", d)
visit_f64(visitor, v, d) ==
    IF visitor = "ValueVisitor" THEN Ok(ValueVisitor_visit_f64(v), d) ELSE Err("Syntax", d)
visit_string(visitor, v, d) ==
    IF visitor = "ValueVisitor" THEN Ok(ValueVisitor_visit_string(v), d) ELSE Ok(v, d)
\* the defaults of the narrower widths widen and forward
visit_i8(visitor, v, d) == visit_i64(visitor, SignExtend(v), d)
visit_i16(visitor, v, d) == visit_i64(visitor, SignExtend(v), d)
visit_i32(visitor, v, d) == visit_i64(visitor, SignExtend(v), d)
visit_f32(visitor, v, d) == visit_f64(visitor, F32ToF64(v), d)

\* What Decoder::visit comes to once it has dispatched: it returns the Result
\* r, or (enter = "seq" / "map") it hands the container visitor sv to
\* visitor.visit_seq / visit_map, whose loop then runs.
Returns(r) == [enter |-> "", r |-> r, sv |-> DecoderVisitor]
Enters(kind, d, sv) == [enter |-> kind, r |-> Ok(<<>>, d), sv |-> sv]

\* visitor.visit_seq / visit_map: the ValueVisitor runs serde's VecVisitor /
\* BTreeMapVisitor on the container visitor; the StringVisitor leaves them to
\* the default, a syntax error that reads nothing
visit_seq(visitor, d, sv) ==
    IF visitor = "ValueVisitor" THEN Enters("seq", d, sv) ELSE Returns(Err("Syntax", d))
visit_map(visitor, d, sv) ==
    IF visitor = "ValueVisitor" THEN Enters("map", d, sv) ELSE Returns(Err("Syntax", d))

\* try!(parse) and then the visitor's method on the payload
Then1(p, visitor, method(_, _, _)) ==
    Returns(IF p.ok THEN method(visitor, p.val, p.d) ELSE p)

\* impl Deserializer for Decoder: the match of visit on the peeked byte, arm
\* by arm, in its order
Decoder_dispatch(rdr, d, byte, visitor) ==
    IF byte \in 48..57
    THEN Then1(Decoder_parse_string(rdr, d), visitor, visit_string)
    ELSE IF byte \in STR_FIXED_START..STR_FIXED_END
    THEN Then1(Decoder_parse_embed_string(rdr, d, byte), visitor, visit_string)
    ELSE IF byte = I8 THEN Then1(Decoder_parse_i8(rdr, d), visitor, visit_i8)
    ELSE IF byte = I16 THEN Then1(Decoder_parse_i16(rdr, d), visitor, visit_i16)
    ELSE IF byte = I32 THEN Then1(Decoder_parse_i32(rdr, d), visitor, visit_i32)
    ELSE IF byte = I64 THEN Then1(Decoder_parse_i64(rdr, d), visitor, visit_i64)
    ELSE IF byte = F32 THEN Then1(Decoder_parse_f32(rdr, d), visitor, visit_f32)
    ELSE IF byte = F64 THEN Then1(Decoder_parse_f64(rdr, d), visitor, visit_f64)
    ELSE IF byte \in INT_POS_FIXED_START..INT_POS_FIXED_END
    THEN Then1(Decoder_parse_embed_pos(d, byte), visitor, visit_i8)
    ELSE IF byte \in INT_NEG_FIXED_START..INT_NEG_FIXED_END
    THEN Then1(Decoder_parse_embed_neg(d, byte), visitor, visit_i8)
    ELSE IF byte = TRUE_ THEN Returns(visit_bool(visitor, TRUE, d))
    ELSE IF byte = FALSE_ THEN Returns(visit_bool(visitor, FALSE, d))
    ELSE IF byte = NONE THEN Returns(visit_none(visitor, d))
    ELSE IF byte = LIST THEN visit_seq(visitor, d, DecoderVisitor)
    ELSE IF byte \in LIST_FIXED_START..LIST_FIXED_END
    THEN LET f == Decoder_build_fixed_visitor(d, byte - LIST_FIXED_START)
         IN  visit_seq(visitor, f.d, f.sv)
    ELSE IF byte = DICT THEN visit_map(visitor, d, DecoderVisitor)
    ELSE IF byte \in DICT_FIXED_START..DICT_FIXED_END
    THEN LET f == Decoder_build_fixed_visitor(d, byte - DICT_FIXED_START)
         IN  visit_map(visitor, f.d, f.sv)
    ELSE IF byte = TERM THEN Returns(Err("EndOfStruct", d))
    ELSE Returns(Err("Syntax", d))

\* Decoder::visit: peek, then the match
Decoder_visit(rdr, d, visitor) ==
    LET p == Decoder_peek(rdr, d)
    IN  IF p.ok THEN Decoder_dispatch(rdr, p.d, p.val, visitor) ELSE Returns(p)

\* What a visitor method returns for the Result r of the
\* Deserialize::deserialize it called: [ok, some, val, err, sv], that is
\* Ok(Some(val)), Ok(None) or Err(err), and the visitor's state after it.
Some(v, sv) == [ok |-> TRUE, some |-> TRUE, val |-> v, err |-> "", sv |-> sv]
None(sv) == [ok |-> TRUE, some |-> FALSE, val |-> <<>>, err |-> "", sv |-> sv]
Fail(e, sv) == [ok |-> FALSE, some |-> FALSE, val |-> <<>>, err |-> e, sv |-> sv]

\* an open list that would take any error of an element for its end
Decoder_SeqVisitor_visit_lax(r, sv) ==
    IF r.ok THEN Some(r.val, sv) ELSE None(sv)

\* impl SeqVisitor for Decoder
Decoder_SeqVisitor_visit(r, sv) ==
    IF r.ok THEN Some(r.val, sv)
    ELSE IF r.err = "EndOfStruct" THEN None(sv)
    ELSE Fail(r.err, sv)

Decoder_SeqVisitor_end(rdr, d) ==
    LET n == Decoder_next(rdr, d)
    IN  IF ~n.ok THEN n
        ELSE IF n.val = TERM THEN Ok(<<>>, n.d)
        ELSE Err("Syntax", n.d)

\* impl MapVisitor for Decoder
Decoder_MapVisitor_visit_key(r, sv) ==
    IF r.ok THEN Some(r.val, sv)
    ELSE IF r.err = "EndOfStruct" THEN None(sv)
    ELSE Fail(r.err, sv)

Decoder_MapVisitor_visit_value(r, sv) ==
    IF r.ok THEN Some(r.val, sv) ELSE Fail(r.err, sv)

Decoder_MapVisitor_end(rdr, d) ==
    LET n == Decoder_next(rdr, d)
    IN  IF ~n.ok THEN n
        ELSE IF n.val = TERM THEN Ok(<<>>, n.d)
        ELSE Err("Syntax", n.d)

\* a FixedVisitor that would stop one item late
FixedVisitor_exhausted_late(sv) == sv.count > sv.len

\* FixedVisitor: `if self.count >= self.len { Ok(None) }`, before anything is read
FixedVisitor_exhausted(sv) == sv.count >= sv.len

\* impl SeqVisitor for FixedVisitor, count below len
FixedVisitor_SeqVisitor_visit(r, sv) ==
    IF r.ok THEN Some(r.val, [sv EXCEPT !.count = (@ + 1) % 256])
    ELSE Fail(r.err, sv)

\* impl MapVisitor for FixedVisitor, count below len
FixedVisitor_MapVisitor_visit_key(r, sv) ==
    IF r.ok THEN Some(r.val, [sv EXCEPT !.count = (@ + 1) % 256])
    ELSE Fail(r.err, sv)

FixedVisitor_MapVisitor_visit_value(r, sv) ==
    IF r.ok THEN Some(r.val, sv) ELSE Fail(r.err, sv)

\* FixedVisitor::end, of both impls
FixedVisitor_end(d) == Ok(<<>>, d)

(***************************************************************************)
(* The call stack of a decode.  Deserialize::deserialize, Decoder::visit,  *)
(* the ValueVisitor and serde's VecVisitor / BTreeMapVisitor call each     *)
(* other recursively; the model keeps one frame for every container whose  *)
(* loop is running: its container visitor sv, what the loop has collected, *)
(* the number n of elements or pairs it has taken, the key waiting for its *)
(* value, and which call of the loop is under way.  start and hdr remember *)
(* where the container's own visit began.                                  *)
(***************************************************************************)
Frame(kind, sv, start, hdr) ==
    [kind |-> kind, sv |-> sv, acc |-> <<>>, n |-> 0, key |-> <<>>,
     phase |-> IF kind = "seq" THEN "elem" ELSE "key", start |-> start, hdr |-> hdr]

Top == stack[Len(stack)]
Pop(stk) == SubSeq(stk, 1, Len(stk) - 1)
SetTop(stk, f) == [stk EXCEPT ![Len(stk)] = f]

\* the visitor the next deserialize runs with: a Dict's key is a String
VisitorAt(stk) ==
    IF stk # <<>> /\ stk[Len(stk)].phase = "key" THEN "StringVisitor" ELSE "ValueVisitor"

\* the Result a visit returned to its caller
NoRet == [ok |-> FALSE, val |-> <<>>, err |-> "none", start |-> 0, hdr |-> -1]
Returned(r, start, hdr) ==
    [ok |-> r.ok, val |-> r.val, err |-> r.err, start |-> start, hdr |-> hdr]

\* The record of one return, kept for the properties: the method fn, called
\* with the cursor at start, saw the byte hdr (-1: none) and returned out with
\* the cursor at pos and the buffer holding peek; n is the number of elements
\* or pairs a container's visit has taken.
Outcome(r) == IF r.ok THEN "Ok" ELSE r.err
EventN(fn, start, hdr, d, out, n) ==
    [fn |-> fn, start |-> start, hdr |-> hdr, pos |-> d.pos, peek |-> d.peek,
     out |-> out, n |-> n, val |-> <<>>, by |-> ""]
\* the return of a visit that dispatched to a leaf: val is what the visitor
\* by made of the payload
EventV(fn, start, hdr, d, out, val, by) ==
    [EventN(fn, start, hdr, d, out, 0) EXCEPT !.val = val, !.by = by]
Event(fn, start, hdr, d, out) == EventN(fn, start, hdr, d, out, 0)
OutcomeOf(o) == IF ~o.ok THEN o.err ELSE IF o.some THEN "Some" ELSE "None"

\* the name of a frame's visitor method
MethodOf(f) ==
    (IF f.sv.kind = "Decoder" THEN "Decoder." ELSE "FixedVisitor.")
    \o (IF f.phase = "elem" THEN "SeqVisitor.visit"
        ELSE IF f.phase = "key" THEN "MapVisitor.visit_key"
        ELSE "MapVisitor.visit_value")

\* The container of the innermost frame returns r from its visit: the frame
\* goes, and the caller has the Result.
Finish(stk, d, tr, r) ==
    LET f == stk[Len(stk)]
    IN  /\ stack' = Pop(stk)
        /\ ret' = Returned(r, f.start, f.hdr)
        /\ trace' = Append(tr, EventN("Decoder.visit", f.start, f.hdr, d, Outcome(r), f.n))
        /\ pos' = d.pos
        /\ peek' = d.peek
        /\ pc' = "ret"

\* the value the ValueVisitor makes of what the loop collected
Collected(f) ==
    IF f.kind = "seq" THEN ValueVisitor_visit_seq(f.acc) ELSE ValueVisitor_visit_map(f.acc)

\* The loop of the innermost frame asks its visitor for the next element or
\* key.  A FixedVisitor that has counted len answers None without reading, its
\* end is Ok, and the container returns; any other visitor deserializes.
Continue(stk, d, tr) ==
    LET f == stk[Len(stk)]
    IN  IF f.sv.kind = "FixedVisitor" /\ FixedVisitor_exhausted(f.sv)
        THEN Finish(stk, d,
                    tr \o <<Event(MethodOf(f), d.pos, -1, d, "None"),
                            Event("FixedVisitor.end", d.pos, -1, d, "Ok")>>,
                    Ok(Collected(f), FixedVisitor_end(d).d))
        ELSE /\ stack' = stk
             /\ ret' = NoRet
             /\ trace' = tr
             /\ pos' = d.pos
             /\ peek' = d.peek
             /\ pc' = "call"

\* The open container of the innermost frame has had None from its visitor:
\* the loop is over and end() looks for the terminator.
End(stk, d, tr) ==
    LET f == stk[Len(stk)]
        e == IF f.kind = "seq" THEN Decoder_SeqVisitor_end(reader, d)
             ELSE Decoder_MapVisitor_end(reader, d)
        seen == IF d.peek # NoPeek THEN d.peek
                ELSE IF d.pos < Len(reader) THEN reader[d.pos + 1] ELSE -1
        r == IF e.ok THEN Ok(Collected(f), e.d) ELSE e
    IN  Finish(stk, e.d, Append(tr, Event("Decoder.end", d.pos, seen, e.d, Outcome(e))), r)

(***************************************************************************)
(* Bounds of the inputs.                                                   *)
(***************************************************************************)
\* integers -MaxInt..MaxInt are all encoded
MaxInt == 130
\* strings of every length up to MaxStrLen
MaxStrLen == 65
\* lists of every length up to MaxListLen
MaxListLen == 65
\* dicts of every size up to MaxDictLen
MaxDictLen == 26
\* containers nest this deep in the values that are encoded
MaxDepth == 2
\* and this deep in the well-formed wire inputs
MaxNest == 2
\* raw inputs have at most MaxRaw bytes
MaxRaw == 4
\* the source of a peek / next run has at most MaxProbe bytes
MaxProbe == 3
\* and the run makes at most MaxCalls calls
MaxCalls == 4
\* decimal-length strings declare, and are followed by, up to MaxDecLen bytes
MaxDecLen == 12

(***************************************************************************)
(* The values that are encoded.                                            *)
(***************************************************************************)
One == VI64(I64FromInt(1))

IntSamples ==
    {I64FromInt(n) : n \in -MaxInt..MaxInt}
    \cup {I64FromInt(n) : n \in {I16_MIN, I16_MIN - 1, I16_MAX, I16_MAX + 1,
                                 I32_MIN, I32_MAX, 100000, -100000}}
    \cup {<<0, 0, 0, 0, 128, 0, 0, 0>>, <<255, 255, 255, 255, 127, 255, 255, 255>>,
          <<0, 0, 0, 93, 33, 219, 160, 0>>, <<255, 255, 255, 162, 222, 36, 96, 0>>,
          <<127, 255, 255, 255, 255, 255, 255, 255>>, <<128, 0, 0, 0, 0, 0, 0, 0>>}

U64Samples ==
    {I64FromInt(5), I64FromInt(44), I64FromInt(1000),
     <<128, 0, 0, 0, 0, 0, 0, 0>>, <<255, 255, 255, 255, 255, 255, 255, 255>>}

\* 0.0, -0.0, 1.5, +inf, a NaN
F64Samples ==
    {<<0, 0, 0, 0, 0, 0, 0, 0>>, <<128, 0, 0, 0, 0, 0, 0, 0>>,
     <<63, 248, 0, 0, 0, 0, 0, 0>>, <<127, 240, 0, 0, 0, 0, 0, 0>>,
     <<127, 248, 0, 0, 0, 0, 0, 0>>}

StrSamples ==
    {Repeat(97, n) : n \in 0..MaxStrLen}
    \cup {Repeat(97, 100), Repeat(97, 1000), <<97, 98>>, <<127>>, <<49, 58>>,
          <<195, 169>>, <<127, 127>>}

\* the i-th key, two letters, in ascending order
KeyOf(i) == <<97 + (i \div 26), 97 + (i % 26)>>

BigLists == {VList([i \in 1..n |-> One]) : n \in 0..MaxListLen}
BigDicts == {VDict([i \in 1..n |-> <<KeyOf(i), One>>]) : n \in 0..MaxDictLen}

Leaves ==
    {VNone, VBool(TRUE), VBool(FALSE)}
    \cup {VI64(v) : v \in IntSamples}
    \cup {VU64(v) : v \in U64Samples}
    \cup {VF64(v) : v \in F64Samples}
    \cup {VString(v) : v \in StrSamples}

NestLeaves ==
    {VNone, One, VI64(I64FromInt(44)), VI64(I64FromInt(200)), VString(<<97>>),
     VString(Repeat(97, 64)), VList(<<>>), VDict(<<>>),
     VList([i \in 1..64 |-> One]), VDict([i \in 1..25 |-> <<KeyOf(i), One>>])}

ValueWraps(x) ==
    {VList(<<x>>), VList(<<One, x>>), VList(<<x, VString(<<97>>)>>),
     VDict(<<<<KeyOf(0), x>>>>), VDict(<<<<KeyOf(0), One>>, <<KeyOf(1), x>>>>),
     VDict(<<<<KeyOf(0), x>>, <<KeyOf(1), VNone>>>>)}

RECURSIVE Nested(_)
Nested(depth) ==
    IF depth = 0 THEN NestLeaves
    ELSE LET inner == Nested(depth - 1)
         IN  inner \cup UNION {ValueWraps(x) : x \in inner}

Values == Leaves \cup BigLists \cup BigDicts \cup Nested(MaxDepth)

(***************************************************************************)
(* Well-formed wire inputs, kept with their structure: a leaf has its      *)
(* bytes and the value they stand for, a container has its items (a map:   *)
(* key, value, key, value ...) in the open (59 / 60 ... 127) or the fixed  *)
(* (192+n / 102+n) form.                                                   *)
(***************************************************************************)
NoWire == [form |-> "none", bytes |-> <<>>, val |-> NoValue, items |-> <<>>]
WLeaf(bytes, val) == [form |-> "leaf", bytes |-> bytes, val |-> val, items |-> <<>>]
WOList(items) == [form |-> "olist", bytes |-> <<>>, val |-> NoValue, items |-> items]
WFList(items) == [form |-> "flist", bytes |-> <<>>, val |-> NoValue, items |-> items]
WOMap(items) == [form |-> "omap", bytes |-> <<>>, val |-> NoValue, items |-> items]
WFMap(items) == [form |-> "fmap", bytes |-> <<>>, val |-> NoValue, items |-> items]

IsOpen(w) == w.form \in {"olist", "omap"}
IsMap(w) == w.form \in {"omap", "fmap"}

RECURSIVE WireBytes(_)
WireBytes(w) ==
    LET body == Flatten([i \in 1..Len(w.items) |-> WireBytes(w.items[i])])
    IN  CASE w.form = "leaf" -> w.bytes
          [] w.form = "olist" -> <<LIST>> \o body \o <<TERM>>
          [] w.form = "flist" -> <<LIST_FIXED_START + Len(w.items)>> \o body
          [] w.form = "omap" -> <<DICT>> \o body \o <<TERM>>
          [] w.form = "fmap" -> <<DICT_FIXED_START + (Len(w.items) \div 2)>> \o body
          [] OTHER -> <<>>

\* the entries of a map's items, as a BTreeMap collects them
RECURSIVE WireEntries(_, _)
\* the value a wire input stands for
RECURSIVE WireValue(_)
WireEntries(vals, n) ==
    IF n = 0 THEN <<>>
    ELSE BTreeInsert(WireEntries(vals, n - 1), Payload(vals[2 * n - 1]), vals[2 * n])

WireValue(w) ==
    LET vals == [i \in 1..Len(w.items) |-> WireValue(w.items[i])]
    IN  IF w.form = "leaf" THEN w.val
        ELSE IF IsMap(w) THEN VDict(WireEntries(vals, Len(vals) \div 2))
        ELSE VList(vals)

WOne == WLeaf(<<1>>, One)
WKeyA == WLeaf(<<129, 97>>, VString(<<97>>))
WKeyB == WLeaf(<<129, 98>>, VString(<<98>>))
WKey(i) == WLeaf(<<130>> \o KeyOf(i), VString(KeyOf(i)))

\* among the leaves, payloads that hold the byte 127
WireLeaves ==
    {WOne, WLeaf(<<I8, TERM>>, VI64(I64FromInt(127))), WLeaf(<<128>>, VString(<<>>)),
     WLeaf(<<129, TERM>>, VString(<<TERM>>)), WLeaf(<<TRUE_>>, VBool(TRUE)),
     WOList(<<>>), WFList(<<>>), WOMap(<<>>), WFMap(<<>>)}

WireWraps(x) ==
    {WOList(<<x>>), WOList(<<WOne, x>>), WOList(<<x, WOne>>), WFList(<<x, WOne>>),
     WOMap(<<WKeyA, x>>), WOMap(<<WKeyA, x, WKeyB, WOne>>),
     WFMap(<<WKeyA, x>>), WFMap(<<WKeyA, WOne, WKeyB, x>>)}

RECURSIVE WireNested(_)
WireNested(depth) ==
    IF depth = 0 THEN WireLeaves
    ELSE LET inner == WireNested(depth - 1)
         IN  inner \cup UNION {WireWraps(x) : x \in inner}

\* the longest fixed forms, and one inside an open list
WireBig ==
    {WFList([i \in 1..(LIST_FIXED_COUNT - 1) |-> WOne]),
     WFMap([i \in 1..(2 * (DICT_FIXED_COUNT - 1)) |->
               IF i % 2 = 1 THEN WKey(i \div 2) ELSE WOne]),
     WOList(<<WFList([i \in 1..(LIST_FIXED_COUNT - 1) |-> WOne]), WOne>>)}

Wires == WireNested(MaxNest) \cup WireBig

\* one encoded value of every form: embedded, fixed-width, string, fixed and
\* open container
WireStrings ==
    {WLeaf(<<130, 58, TERM>>, VString(<<58, TERM>>)),
     WLeaf(<<50, 58, 49, TERM>>, VString(<<49, TERM>>)),
     WLeaf(<<48, 58>>, VString(<<>>)),
     WLeaf(<<48, 49, 58, 98>>, VString(<<98>>))}

WireForms ==
    WireStrings \cup
    {WOne, WLeaf(<<70>>, VI64(I64FromInt(-1))),
     WLeaf(<<I8, TERM>>, VI64(I64FromInt(127))),
     WLeaf(<<I16, 1, 2>>, VI64(I64FromInt(258))),
     WLeaf(<<I32, 255, 255, 255, TERM>>, VI64(I64FromInt(-129))),
     WLeaf(<<I64, 0, 0, 0, 0, 0, 0, TERM, 49>>, VI64(<<0, 0, 0, 0, 0, 0, TERM, 49>>)),
     WLeaf(<<F32, 63, 128, 0, 0>>, VF64(F32ToF64(<<63, 128, 0, 0>>))),
     WLeaf(<<F64, 64, 9, 33, 251, 84, 68, 45, 24>>, VF64(<<64, 9, 33, 251, 84, 68, 45, 24>>)),
     WLeaf(<<TRUE_>>, VBool(TRUE)), WLeaf(<<FALSE_>>, VBool(FALSE)), WLeaf(<<NONE>>, VNone),
     WOList(<<>>), WOList(<<WOne>>), WFList(<<>>), WFList(<<WOne>>),
     WOMap(<<>>), WOMap(<<WKeyA, WOne>>), WFMap(<<>>), WFMap(<<WKeyA, WOne>>)}

\* two encoded values back to back: as elements of a list, as key and value
\* of a pair, as value of a pair and key of the next one
WirePairs ==
    WireForms
    \cup UNION {{WOList(<<x, y>>), WFList(<<x, y>>)} : x \in WireForms, y \in WireForms}
    \cup UNION {{WOMap(<<k, y>>), WFMap(<<k, y>>), WOMap(<<WKeyA, y, k, WOne>>),
                 WFMap(<<WKeyA, y, k, WOne>>)} : k \in WireStrings, y \in WireForms}

\* what may stand after the one encoded value in the byte source
WireTails(w) == IF w \in WirePairs THEN {<<>>, <<TERM>>, <<49, 58>>} ELSE {<<>>}

(***************************************************************************)
(* Raw inputs: every byte string of a small alphabet, and every truncation *)
(* of a fixed-width payload in a number of contexts.                       *)
(***************************************************************************)
RawBytes == {1, 45, 49, 58, LIST, DICT, TERM, 129, 193, 103}
RawInputs == UNION {[1..n -> RawBytes] : n \in 0..MaxRaw}

\* the payload width of a fixed-width header
WidthOf(h) ==
    CASE h = I8 -> 1 [] h = I16 -> 2 [] h = I32 -> 4 [] h = I64 -> 8
      [] h = F32 -> 4 [] h = F64 -> 8 [] OTHER -> 0

FixedWidthHeaders == {I8, I16, I32, I64, F32, F64}

CutContexts ==
    {<<>>, <<LIST>>, <<193>>, <<194, 1>>, <<195, 1, 1>>, <<LIST, 1>>, <<LIST, LIST>>,
     <<LIST, 193>>, <<DICT, 129, 97>>, <<103, 129, 97>>, <<DICT, 129, 97, 1, 129, 98>>}

CutInputs ==
    {c \o <<h>> \o Repeat(b, k) :
        c \in CutContexts, h \in FixedWidthHeaders, b \in {0, TERM}, k \in 0..8}

ProbeInputs == UNION {[1..n -> {1, TERM, 200}] : n \in 0..MaxProbe}

\* Decimal-length strings: every declared length against every number of
\* bytes that follow; lengths with leading zeros; prefixes that are no
\* number, no text, or beyond usize; payloads that are no text; some of them
\* inside containers.
DecimalPlain ==
    {Decimal(n) \o <<58>> \o Repeat(97, m) : n \in 0..MaxDecLen, m \in 0..MaxDecLen}

DecimalOdd ==
    {<<48, 48, 58>>, <<48, 48, 55, 58, 97, 98, 99, 100, 101, 102, 103>>,
     <<56, 58, 114, 117, 115, 116, 108, 97, 110, 103>>,
     <<49, 50>>, <<49>>, <<49, 120, 58, 97>>, <<49, 32, 58, 97>>, <<49, 43, 58, 97>>,
     <<49, 45, 49, 58, 97>>, <<49, 255, 58, 97>>, <<49, 195, 169, 58, 97>>,
     <<49, 195, 58, 97>>, <<49, 58, 255>>, <<50, 58, 195, 169>>, <<49, 58, 195>>,
     <<50, 58, 97, 128>>,
     <<52, 50, 57, 52, 57, 54, 55, 50, 57, 54, 58, 97, 98>>,
     UsizeMaxDigits \o <<58, 97>>,
     <<49, 56, 52, 52, 54, 55, 52, 52, 48, 55, 51, 55, 48, 57, 53, 53, 49, 54, 49, 54,
       58, 97>>,
     Repeat(57, 20) \o <<58, 97>>, Repeat(48, 20) \o <<50, 58, 97, 98>>}

DecimalInputs ==
    DecimalPlain \cup DecimalOdd
    \cup {<<LIST>> \o x \o <<1, TERM>> : x \in DecimalOdd}
    \cup {<<194>> \o x \o <<49, 58, 98>> : x \in DecimalOdd}
    \cup {<<DICT>> \o x \o <<49, 58, 118, TERM>> : x \in DecimalOdd}
    \cup {<<DICT, 49, 58, 107>> \o x \o <<TERM>> : x \in DecimalOdd}

\* Integers: every embedded header, every one-byte payload, and payloads
\* of the wider forms around their sign changes; alone and as the first
\* element of an open list.
IntPayloads ==
    {<<0, 0>>, <<0, 200>>, <<255, 56>>, <<127, 255>>, <<128, 0>>, <<255, 255>>,
     <<0, 1, 134, 160>>, <<255, 254, 121, 96>>, <<127, 255, 255, 255>>,
     <<128, 0, 0, 0>>, <<255, 255, 255, 255>>, <<0, 0, 0, 44>>,
     <<0, 0, 0, 93, 33, 219, 160, 0>>, <<255, 255, 255, 162, 222, 36, 96, 0>>,
     <<127, 255, 255, 255, 255, 255, 255, 255>>, <<128, 0, 0, 0, 0, 0, 0, 0>>,
     <<255, 255, 255, 255, 255, 255, 255, 255>>, <<0, 0, 0, 0, 0, 0, 0, 44>>}

IntForms ==
    {<<b>> : b \in (INT_POS_FIXED_START..INT_POS_FIXED_END)
                    \cup (INT_NEG_FIXED_START..INT_NEG_FIXED_END)}
    \cup {<<I8, p>> : p \in Byte}
    \cup UNION {{<<h>> \o ps : ps \in {q \in IntPayloads : Len(q) = WidthOf(h)}} :
                    h \in {I16, I32, I64}}

IntInputs == IntForms \cup {<<LIST>> \o x \o <<1, TERM>> : x \in IntForms}

\* the bytes the match of visit has no arm for
ReservedBytes == {45, 46, 47, 58, 61}

\* a reserved byte in every position a value can stand in, with and without
\* a terminator after it
\* every place a value is expected at: top level, list element, map key,
\* map value
ReservedContexts == CutContexts \cup {<<DICT>>, <<103>>, <<LIST, DICT, 129, 97>>}

ReservedInputs ==
    {c \o <<b>> \o t :
        c \in ReservedContexts, b \in ReservedBytes, t \in {<<>>, <<TERM>>, <<1, TERM, TERM>>}}
    \cup {<<b>> : b \in Byte}

(***************************************************************************)
(* The state machine.  A run is one of: encode a value and decode what was *)
(* written (examples/test.rs); decode a given input; call peek and next on *)
(* a fresh Decoder in any order.                                           *)
(***************************************************************************)
NoResult == [ok |-> FALSE, val |-> <<>>, err |-> "none"]
\* the last call of a peek / next run, the call before it, and their number
NoCall == [op |-> "none", ok |-> FALSE, byte |-> -1, n |-> 0, prev |-> "none"]

Idle ==
    /\ writer = <<>>
    /\ pos = 0
    /\ peek = NoPeek
    /\ stack = <<>>
    /\ ret = NoRet
    /\ result = NoResult
    /\ trace = <<>>
    /\ last = NoCall

Init ==
    /\ Idle
    /\ \/ /\ pc = "encode"
          /\ value \in Values
          /\ lenhint \in (IF Tag(value) \in {"List", "Dict"} THEN {"some", "none"}
                          ELSE {"some"})
          /\ reader = <<>>
          /\ wire = NoWire
       \/ /\ pc = "decode"
          /\ value = NoValue
          /\ lenhint = "some"
          /\ reader \in RawInputs \cup CutInputs \cup DecimalInputs \cup IntInputs
                          \cup ReservedInputs
          /\ wire = NoWire
       \/ /\ pc = "decode"
          /\ value = NoValue
          /\ lenhint = "some"
          /\ wire \in Wires \cup WirePairs
          /\ reader \in {WireBytes(wire) \o t : t \in WireTails(wire)}
       \/ /\ pc = "probe"
          /\ value = NoValue
          /\ lenhint = "some"
          /\ reader \in ProbeInputs
          /\ wire = NoWire

\* encode(&value); with lenhint "none" the outermost container is written by
\* a sequence / map visitor whose len() is None
Encode ==
    /\ pc = "encode"
    /\ writer' = IF lenhint = "some" THEN encode(value)
                 ELSE IF Tag(value) = "List" THEN Encoder_visit_seq(Payload(value), -1)
                 ELSE Encoder_visit_map(Payload(value), -1)
    /\ pc' = "encoded"
    /\ UNCHANGED <<value, lenhint, reader, pos, peek, stack, ret, result, trace, wire, last>>

\* decode(&data[..]) on what encode wrote: Decoder::new, then deserialize
DecodeEncoded ==
    /\ pc = "encoded"
    /\ reader' = writer
    /\ pos' = 0
    /\ peek' = NoPeek
    /\ pc' = "call"
    /\ UNCHANGED <<value, lenhint, writer, stack, ret, result, trace, wire, last>>

\* decode(reader) on a given input
Decode ==
    /\ pc = "decode"
    /\ pos' = 0
    /\ peek' = NoPeek
    /\ pc' = "call"
    /\ UNCHANGED <<value, lenhint, writer, reader, stack, ret, result, trace, wire, last>>

\* Deserialize::deserialize -> Decoder::visit: a leaf or an error returns at
\* once, a container starts the loop of its visitor
Visit ==
    /\ pc = "call"
    /\ LET d == [pos |-> pos, peek |-> peek]
           p == Decoder_peek(reader, d)
           hdr == IF p.ok THEN p.val ELSE -1
           x == Decoder_visit(reader, d, VisitorAt(stack))
       IN  IF x.enter = ""
           THEN /\ ret' = Returned(x.r, pos, hdr)
                /\ trace' = Append(trace, EventV("Decoder.visit", pos, hdr, x.r.d,
                                                  Outcome(x.r), x.r.val, VisitorAt(stack)))
                /\ pos' = x.r.d.pos
                /\ peek' = x.r.d.peek
                /\ stack' = stack
                /\ pc' = "ret"
           ELSE Continue(Append(stack, Frame(x.enter, x.sv, pos, hdr)), x.r.d, trace)
    /\ UNCHANGED <<value, lenhint, writer, reader, result, wire, last>>

\* The innermost frame's visitor method returns o for the Result of the
\* deserialize it called; the loop (or its try!) goes on from there.
Resume(o) ==
    LET f == Top
        d == [pos |-> pos, peek |-> peek]
        tr == Append(trace, Event(MethodOf(f), ret.start, ret.hdr, d, OutcomeOf(o)))
        g == [f EXCEPT !.sv = o.sv]
    IN  IF ~o.ok THEN Finish(stack, d, tr, Err(o.err, d))
        ELSE IF ~o.some THEN End(stack, d, tr)
        ELSE IF f.phase = "elem"
        THEN Continue(SetTop(stack, [g EXCEPT !.acc = Append(@, o.val), !.n = @ + 1]), d, tr)
        ELSE IF f.phase = "key"
        THEN /\ stack' = SetTop(stack, [g EXCEPT !.key = o.val, !.phase = "value"])
             /\ ret' = NoRet
             /\ trace' = tr
             /\ UNCHANGED <<pos, peek>>
             /\ pc' = "call"
        ELSE Continue(SetTop(stack, [g EXCEPT !.acc = BTreeInsert(@, f.key, o.val),
                                              !.n = @ + 1, !.key = <<>>,
                                              !.phase = "key"]), d, tr)

Returning(kind, svkind, phase) ==
    /\ pc = "ret"
    /\ stack # <<>>
    /\ Top.kind = kind
    /\ Top.sv.kind = svkind
    /\ Top.phase = phase

\* <Decoder as SeqVisitor>::visit returns to VecVisitor's loop
SeqVisit ==
    /\ Returning("seq", "Decoder", "elem")
    /\ Resume(Decoder_SeqVisitor_visit(ret, Top.sv))
    /\ UNCHANGED <<value, lenhint, writer, reader, result, wire, last>>

\* <Decoder as MapVisitor>::visit_key returns to BTreeMapVisitor's loop
MapVisitKey ==
    /\ Returning("map", "Decoder", "key")
    /\ Resume(Decoder_MapVisitor_visit_key(ret, Top.sv))
    /\ UNCHANGED <<value, lenhint, writer, reader, result, wire, last>>

\* <Decoder as MapVisitor>::visit_value returns to BTreeMapVisitor's loop
MapVisitValue ==
    /\ Returning("map", "Decoder", "value")
    /\ Resume(Decoder_MapVisitor_visit_value(ret, Top.sv))
    /\ UNCHANGED <<value, lenhint, writer, reader, result, wire, last>>

\* <FixedVisitor as SeqVisitor>::visit returns
FixedSeqVisit ==
    /\ Returning("seq", "FixedVisitor", "elem")
    /\ Resume(FixedVisitor_SeqVisitor_visit(ret, Top.sv))
    /\ UNCHANGED <<value, lenhint, writer, reader, result, wire, last>>

\* <FixedVisitor as MapVisitor>::visit_key returns
FixedMapVisitKey ==
    /\ Returning("map", "FixedVisitor", "key")
    /\ Resume(FixedVisitor_MapVisitor_visit_key(ret, Top.sv))
    /\ UNCHANGED <<value, lenhint, writer, reader, result, wire, last>>

\* <FixedVisitor as MapVisitor>::visit_value returns
FixedMapVisitValue ==
    /\ Returning("map", "FixedVisitor", "value")
    /\ Resume(FixedVisitor_MapVisitor_visit_value(ret, Top.sv))
    /\ UNCHANGED <<value, lenhint, writer, reader, result, wire, last>>

\* the outermost visit returns: decode has its Result
Decoded ==
    /\ pc = "ret"
    /\ stack = <<>>
    /\ result' = [ok |-> ret.ok, val |-> ret.val, err |-> ret.err]
    /\ pc' = "decoded"
    /\ UNCHANGED <<value, lenhint, writer, reader, pos, peek, stack, ret, trace, wire, last>>

\* decoder.peek()
Peek ==
    /\ pc = "probe"
    /\ last.n < MaxCalls
    /\ LET r == Decoder_peek(reader, [pos |-> pos, peek |-> peek])
       IN  /\ pos' = r.d.pos
           /\ peek' = r.d.peek
           /\ last' = [op |-> "peek", ok |-> r.ok, byte |-> IF r.ok THEN r.val ELSE -1,
                       n |-> last.n + 1, prev |-> last.op]
    /\ UNCHANGED <<pc, value, lenhint, writer, reader, stack, ret, result, trace, wire>>

\* decoder.next()
NextByte ==
    /\ pc = "probe"
    /\ last.n < MaxCalls
    /\ LET r == Decoder_next(reader, [pos |-> pos, peek |-> peek])
       IN  /\ pos' = r.d.pos
           /\ peek' = r.d.peek
           /\ last' = [op |-> "next", ok |-> r.ok, byte |-> IF r.ok THEN r.val ELSE -1,
                       n |-> last.n + 1, prev |-> last.op]
    /\ UNCHANGED <<pc, value, lenhint, writer, reader, stack, ret, result, trace, wire>>

Next ==
    \/ Encode
    \/ DecodeEncoded
    \/ Decode
    \/ Visit
    \/ SeqVisit
    \/ MapVisitKey
    \/ MapVisitValue
    \/ FixedSeqVisit
    \/ FixedMapVisitKey
    \/ FixedMapVisitValue
    \/ Decoded
    \/ Peek
    \/ NextByte

Spec == Init /\ [][Next]_vars

(***************************************************************************)
(* Properties.                                                             *)
(***************************************************************************)
\* the digits without their leading zeros
StripZeros(bs) ==
    LET nz == {i \in 1..Len(bs) : bs[i] # 48}
    IN  IF nz = {} THEN <<>>
        ELSE SubSeq(bs, CHOOSE i \in nz : \A j \in nz : i <= j, Len(bs))

\* the number a short run of decimal digits stands for
RECURSIVE DigitsValue(_)
DigitsValue(bs) ==
    IF bs = <<>> THEN 0
    ELSE DigitsValue(SubSeq(bs, 1, Len(bs) - 1)) * 10 + (bs[Len(bs)] - 48)

\* the indices of the returns recorded in trace that are of fn
EventsOf(fn) == {i \in 1..Len(trace) : trace[i].fn = fn}

\* C1: round trip: for every Generic Value v, decode(encode(v)) succeeds and
\* returns a Value equal to v (PartialEq of Value), of the same variant and
\* payload.
RoundTrip ==
    (pc = "decoded" /\ value # NoValue) =>
        (result.ok /\ Tag(result.val) = Tag(value) /\ ValueEq(result.val, value))

\* the priority list of the specification: the embedded positive form is for
\* 0..43 only
PriorityForm(v) ==
    IF InRange(v, -32, -1) THEN <<69 - I8ToInt(Truncate(v, 1))>>
    ELSE IF InRange(v, 0, 43) THEN <<I8ToInt(Truncate(v, 1))>>
    ELSE IF InRange(v, I8_MIN, I8_MAX) THEN <<62>> \o Truncate(v, 1)
    ELSE IF InRange(v, I16_MIN, I16_MAX) THEN <<63>> \o Truncate(v, 2)
    ELSE IF InRange(v, I32_MIN, I32_MAX) THEN <<64>> \o Truncate(v, 4)
    ELSE <<65>> \o v

\* C2: for every i64 v, encode(v) is the first applicable form of the
\* priority list; 43 encodes as [43] and 44 as [62, 44].
IntegerPriorityList ==
    (pc = "encoded" /\ Tag(value) = "I64") => writer = PriorityForm(Payload(value))

\* the byte offset of the i-th item of the container w that starts at off
ItemOffset(w, off, i) ==
    off + 1 + Len(Flatten([j \in 1..(i - 1) |-> WireBytes(w.items[j])]))

\* The open containers of the wire input w, which starts at byte offset off:
\* for each one the offset of its header and the (1-based) position of the
\* terminator that closes it.
RECURSIVE Opens(_, _)
Opens(w, off) ==
    (IF IsOpen(w) THEN {<<off, off + Len(WireBytes(w))>>} ELSE {})
    \cup UNION {Opens(w.items[i], ItemOffset(w, off, i)) : i \in 1..Len(w.items)}

\* the visits of open containers that returned a value
OpenVisits ==
    {i \in EventsOf("Decoder.visit") : trace[i].hdr \in {LIST, DICT} /\ trace[i].out = "Ok"}

\* C3: sentinel scoping: on well-formed input every open container consumes
\* exactly one terminator, the one that closes it, and returns with the cursor
\* right after that terminator and nothing buffered, so that what follows is
\* decoded as the parent's; the decode returns the value the input stands for.
SentinelScoping ==
    (pc = "decoded" /\ wire # NoWire) =>
        /\ result.ok
        /\ ValueEq(result.val, WireValue(wire))
        /\ {<<trace[i].start, trace[i].pos>> : i \in OpenVisits} = Opens(wire, 0)
        /\ Cardinality(EventsOf("Decoder.end")) = Cardinality(Opens(wire, 0))
        /\ \A i \in EventsOf("Decoder.end") :
              /\ trace[i].out = "Ok"
              /\ trace[i].hdr = TERM
              /\ trace[i].start = trace[i].pos
              /\ reader[trace[i].pos] = TERM
              /\ trace[i].peek = NoPeek
              /\ \E j \in OpenVisits : j = i + 1 /\ trace[j].pos = trace[i].pos

\* an open container in an open container in an open container, and a leaf
\* element decoded after an inner one has returned
SentinelScopingWitness ==
    /\ pc = "decoded"
    /\ wire # NoWire
    /\ result.ok
    /\ Cardinality(Opens(wire, 0)) >= 3
    /\ \E i \in OpenVisits, j \in EventsOf("Decoder.visit") :
          /\ trace[i].start > 0
          /\ j > i
          /\ trace[j].hdr = 1
          /\ trace[j].out = "Ok"

\* a visit that met the sentinel where a value is mandatory: its caller is
\* not an open container reading its next element or its next key
MandatoryTerm(i) ==
    /\ trace[i].fn = "Decoder.visit"
    /\ trace[i].hdr = TERM
    /\ \/ i = Len(trace)
       \/ trace[i + 1].fn \notin {"Decoder.SeqVisitor.visit", "Decoder.MapVisitor.visit_key"}

\* C4: the end-of-structure condition is converted to "no more elements" only
\* by the open list or map that directly read the sentinel as its next element
\* or key; a sentinel where a value is mandatory makes the whole decode fail,
\* also inside an enclosing open container.
EndOfStructOnlyDirect ==
    pc = "decoded" =>
        /\ \A i \in 2..Len(trace) :
              (trace[i].out = "None"
               /\ trace[i].fn \in {"Decoder.SeqVisitor.visit", "Decoder.MapVisitor.visit_key"})
              => (trace[i - 1].fn = "Decoder.visit" /\ trace[i - 1].hdr = TERM)
        /\ (\E i \in 1..Len(trace) : MandatoryTerm(i)) => ~result.ok

\* a peek / next run has just made the call op
Called(op) == last'.op = op /\ last'.n = last.n + 1

\* C5 as the specification states it: a peek after a peek returns the same
\* byte and does not advance the cursor again.
PeekNeverAdvancesTwice ==
    [][(last.op = "peek" /\ last.ok /\ Called("peek"))
       => (last'.ok /\ last'.byte = last.byte /\ pos' = pos)]_vars

\* C5, as the code has it: every peek drops what is buffered, reads the next
\* byte of the source and buffers it (so a peek after a peek returns the
\* following byte and the cursor has advanced twice); a next that follows a
\* peek returns the peeked byte, empties the buffer and reads nothing.
PeekReadsNextTakesBuffered ==
    [][/\ Called("peek") =>
            IF pos < Len(reader)
            THEN /\ last'.ok
                 /\ last'.byte = reader[pos + 1]
                 /\ pos' = pos + 1
                 /\ peek' = last'.byte
            ELSE ~last'.ok /\ peek' = NoPeek /\ pos' = pos
       /\ (last.op = "peek" /\ last.ok /\ Called("next"))
            => (last'.ok /\ last'.byte = last.byte /\ pos' = pos /\ peek' = NoPeek)]_vars

\* two peeks in a row on a source of two different bytes, then a next
PeekTwiceWitness ==
    /\ pc = "probe"
    /\ last.op = "next"
    /\ last.prev = "peek"
    /\ last.n = 3
    /\ pos = 2
    /\ last.byte = reader[2]
    /\ reader[1] # reader[2]

\* a fixed-width header whose payload the input ends before
Truncated(i) ==
    /\ trace[i].fn = "Decoder.visit"
    /\ trace[i].hdr \in FixedWidthHeaders
    /\ Len(reader) - (trace[i].start + 1) < WidthOf(trace[i].hdr)

\* C6: a fixed-width header (62, 63, 64, 65, 66, 44) whose payload is cut
\* short fails with UnexpectedEOF, at the top level and inside any container:
\* every caller up to decode returns that error, no open container takes it
\* for its end, and no value is returned.
TruncationFails ==
    pc = "decoded" =>
        \A i \in 1..Len(trace) :
            Truncated(i) =>
                /\ \A j \in i..Len(trace) : trace[j].out = "UnexpectedEOF"
                /\ ~result.ok
                /\ result.err = "UnexpectedEOF"
                /\ result.val = <<>>

\* a 4-byte payload cut after its first byte, two containers deep
TruncationWitness ==
    /\ pc = "decoded"
    /\ result.err = "UnexpectedEOF"
    /\ Len(stack) = 0
    /\ \E i \in 1..Len(trace) :
          /\ Truncated(i)
          /\ trace[i].hdr = I32
          /\ trace[i].start = Len(reader) - 2
          /\ reader[1] = LIST
          /\ reader[2] \in {LIST, 193}
          /\ Len(trace) >= i + 4

\* the visits of fixed-count containers that returned a value
FixedVisits ==
    {i \in EventsOf("Decoder.visit") :
        /\ trace[i].out = "Ok"
        /\ trace[i].hdr \in (LIST_FIXED_START..LIST_FIXED_END)
                             \cup (DICT_FIXED_START..DICT_FIXED_END)}

\* the count a fixed header stands for
FixedLen(b) == IF b >= LIST_FIXED_START THEN b - 192 ELSE b - 102

\* C7: a list header b in 192..255 decodes exactly b - 192 values, a map
\* header b in 102..126 exactly b - 102 pairs; then the visitor answers "no
\* more" and the container returns without reading anything: the cursor stays
\* where the last item left it (for a count of 0, right after the header).
FixedCountExact ==
    pc = "decoded" =>
        \A i \in FixedVisits :
            /\ trace[i].n = FixedLen(trace[i].hdr)
            /\ i > 2
            /\ trace[i - 1].fn = "FixedVisitor.end"
            /\ trace[i - 2].out = "None"
            /\ trace[i - 2].start = trace[i].pos
            /\ trace[i - 2].pos = trace[i].pos
            /\ IF trace[i].n = 0 THEN trace[i].pos = trace[i].start + 1
               ELSE /\ i > 3
                    /\ trace[i - 3].out = "Some"
                    /\ trace[i - 3].pos = trace[i].pos

\* a fixed map of one pair has returned inside a fixed list of two, and the
\* byte after the map's last item, no terminator, was decoded as the list's
FixedCountWitness ==
    /\ pc = "decoded"
    /\ result.ok
    /\ \E i, j \in FixedVisits :
          /\ trace[i].hdr = 194
          /\ trace[j].hdr = 103
          /\ trace[i].start < trace[j].start
          /\ trace[j].pos < Len(reader)
          /\ reader[trace[j].pos + 1] # TERM
          /\ trace[i].pos = trace[j].pos + 1

\* the encodings of the items of a list, one after the other
ItemEncodings(items) == Flatten([i \in 1..Len(items) |-> encode(items[i])])

\* the encodings of the entries of a dict: each key, as a string, then its value
EntryEncodings(entries) ==
    Flatten([i \in 1..Len(entries) |->
                encode(VString(entries[i][1])) \o encode(entries[i][2])])

\* C8: a sequence of known count n < 64 is encoded as the byte 192 + n and
\* the n element encodings, with no terminator; a sequence of unknown count or
\* of n >= 64 as 59, the element encodings and one terminator 127.
SequenceForm ==
    (pc = "encoded" /\ Tag(value) = "List") =>
        LET items == Payload(value)
        IN  writer = IF lenhint = "some" /\ Len(items) < 64
                     THEN <<192 + Len(items)>> \o ItemEncodings(items)
                     ELSE <<59>> \o ItemEncodings(items) \o <<127>>

\* a list of one element, itself a list of 64: the fixed form around the open
SequenceFormWitness ==
    /\ pc = "encoded"
    /\ lenhint = "some"
    /\ Tag(value) = "List"
    /\ Len(Payload(value)) = 1
    /\ Tag(Payload(value)[1]) = "List"
    /\ Len(Payload(Payload(value)[1])) = 64
    /\ writer = <<193, 59>> \o Repeat(1, 64) \o <<127>>

\* C9: a map of known count n < 25 is encoded as the byte 102 + n and the n
\* entries, key then value, with no terminator; a map of unknown count or of
\* n >= 25 as 60, the entries and one terminator 127.  The header of the fixed
\* form is never 127.
MapForm ==
    (pc = "encoded" /\ Tag(value) = "Dict") =>
        LET entries == Payload(value)
        IN  /\ writer = IF lenhint = "some" /\ Len(entries) < 25
                        THEN <<102 + Len(entries)>> \o EntryEncodings(entries)
                        ELSE <<60>> \o EntryEncodings(entries) \o <<127>>
            /\ (lenhint = "some" /\ Len(entries) < 25) => writer[1] \in 102..126

\* a dict of one entry whose value is a dict of 25: the fixed form around the
\* open form
MapFormWitness ==
    /\ pc = "encoded"
    /\ lenhint = "some"
    /\ Tag(value) = "Dict"
    /\ Len(Payload(value)) = 1
    /\ Tag(Payload(value)[1][2]) = "Dict"
    /\ Len(Payload(Payload(value)[1][2])) = 25
    /\ SubSeq(writer, 1, 5) = <<103, 130>> \o Payload(value)[1][1] \o <<60>>
    /\ writer[Len(writer)] = 127
    /\ Len(writer) = 5 + 25 * 4 + 1

\* C10: a string of n < 64 bytes is encoded as the byte 128 + n and its
\* bytes; a string of n >= 64 bytes as the decimal digits of n (no leading
\* zero), a ':' and its bytes.
StringForm ==
    (pc = "encoded" /\ Tag(value) = "String") =>
        LET bytes == Payload(value)
            n == Len(bytes)
        IN  IF n < 64 THEN writer = <<128 + n>> \o bytes
            ELSE \E k \in 1..(Len(writer) - n - 1) :
                    /\ \A i \in 1..k : writer[i] \in 48..57
                    /\ writer[1] # 48
                    /\ DigitsValue(SubSeq(writer, 1, k)) = n
                    /\ writer[k + 1] = 58
                    /\ SubSeq(writer, k + 2, Len(writer)) = bytes

\* the string of 64 bytes, written with the prefix "64:"
StringFormWitness ==
    /\ pc = "encoded"
    /\ Tag(value) = "String"
    /\ Len(Payload(value)) = 64
    /\ SubSeq(writer, 1, 3) = <<54, 52, 58>>
    /\ Len(writer) = 67

\* the visits that met an ASCII digit
DigitVisits == {i \in EventsOf("Decoder.visit") : trace[i].hdr \in 48..57}

\* the position of the first ':' after the cursor position s, 0 when none
FirstColon(s) ==
    LET colons == {k \in (s + 1)..Len(reader) : reader[k] = 58}
    IN  IF colons = {} THEN 0 ELSE CHOOSE k \in colons : \A j \in colons : k <= j

AllDigits(bs) == \A j \in 1..Len(bs) : bs[j] \in 48..57

\* a digit string that str::parse::<usize> rejects: above usize::MAX
BeyondUsize(bs) ==
    LET sig == StripZeros(bs)
    IN  Len(sig) > 20 \/ (Len(sig) = 20 /\ ~LexLe(sig, UsizeMaxDigits))

\* the declared length is more than the n bytes that are left
LongerThan(bs, n) ==
    LET sig == StripZeros(bs)
    IN  Len(sig) > 9 \/ DigitsValue(sig) > n

\* C11 as the specification states it: the bytes up to the first ':' are
\* parsed as a length N and the next N bytes are returned as the string, the
\* cursor right after them; a byte before ':' that is no digit gives the
\* malformed-length parse error, an input that ends before ':' or before N
\* bytes the truncation error (and N bytes that are no text the
\* text-encoding error of the specification's error kinds).
DecimalStringAsStated ==
    pc = "decoded" =>
        \A i \in DigitVisits :
            LET s == trace[i].start
                k == FirstColon(s)
                prefix == SubSeq(reader, s + 1, k - 1)
                len == DigitsValue(StripZeros(prefix))
            IN  IF k = 0 THEN trace[i].out = "UnexpectedEOF"
                ELSE IF ~AllDigits(prefix) \/ BeyondUsize(prefix)
                THEN trace[i].out = "ParseIntError"
                ELSE IF LongerThan(prefix, Len(reader) - k)
                THEN trace[i].out = "UnexpectedEOF"
                ELSE IF ~IsUtf8(SubSeq(reader, k + 1, k + len))
                THEN trace[i].out = "FromUtf8Error"
                ELSE /\ trace[i].out = "Ok"
                     /\ trace[i].pos = k + len

\* C11, what the code does instead: the bytes before ':' are converted to
\* text before the length is parsed, so a byte before ':' that is no digit
\* and makes them invalid UTF-8 gives the text-encoding error, not the
\* malformed-length parse error; everything else is as stated.
DecimalStringExact ==
    pc = "decoded" =>
        \A i \in DigitVisits :
            LET s == trace[i].start
                k == FirstColon(s)
                prefix == SubSeq(reader, s + 1, k - 1)
                len == DigitsValue(StripZeros(prefix))
                body == SubSeq(reader, k + 1, k + len)
            IN  IF k = 0
                THEN trace[i].out = "UnexpectedEOF" /\ trace[i].pos = Len(reader)
                ELSE IF ~IsUtf8(prefix)
                THEN trace[i].out = "FromUtf8Error" /\ trace[i].pos = k
                ELSE IF ~AllDigits(prefix) \/ BeyondUsize(prefix)
                THEN trace[i].out = "ParseIntError" /\ trace[i].pos = k
                ELSE IF LongerThan(prefix, Len(reader) - k)
                THEN trace[i].out = "UnexpectedEOF" /\ trace[i].pos = Len(reader)
                ELSE IF ~IsUtf8(body)
                THEN trace[i].out = "FromUtf8Error" /\ trace[i].pos = k + len
                ELSE /\ trace[i].out = "Ok"
                     /\ trace[i].pos = k + len
                     /\ trace[i].peek = NoPeek
                     /\ trace[i].val = IF trace[i].by = "ValueVisitor" THEN VString(body)
                                       ELSE body

\* a string with a length of several digits has been decoded inside a list,
\* and the element after it as well
DecimalStringWitness ==
    /\ pc = "decoded"
    /\ result.ok
    /\ \E i \in DigitVisits :
          /\ trace[i].out = "Ok"
          /\ trace[i].start > 0
          /\ reader[trace[i].start + 2] \in 48..57
          /\ trace[i].pos > trace[i].start + 4
          /\ trace[i].pos < Len(reader)
          /\ i < Len(trace)
          /\ \E j \in EventsOf("Decoder.visit") :
                j > i /\ trace[j].start = trace[i].pos /\ trace[j].out = "Ok"

\* the visits on behalf of a generic Value that met an integer header
IntVisits ==
    {i \in EventsOf("Decoder.visit") :
        /\ trace[i].by = "ValueVisitor"
        /\ trace[i].hdr \in (0..43) \cup (70..101) \cup {I8, I16, I32, I64}}

\* the big-endian two's complement number in 1, 2 or 4 bytes
BigEndianSigned(bs) ==
    LET hi == IF bs[1] >= 128 THEN bs[1] - 256 ELSE bs[1]
    IN  IF Len(bs) = 1 THEN hi
        ELSE IF Len(bs) = 2 THEN hi * 256 + bs[2]
        ELSE hi * 16777216 + bs[2] * 65536 + bs[3] * 256 + bs[4]

\* C12: a header b in 0..43 decodes to b and a header b in 70..101 to 69 - b,
\* the cursor right after the header; a header 62, 63, 64 or 65 decodes to
\* the big-endian signed integer in the next 1, 2, 4 or 8 bytes.
IntegerDecoding ==
    /\ pc = "decoded" =>
        \A i \in IntVisits :
            LET b == trace[i].hdr
                s == trace[i].start
                w == WidthOf(b)
                payload == SubSeq(reader, s + 2, s + 1 + w)
            IN  IF b \in 0..43
                THEN /\ trace[i].out = "Ok"
                     /\ trace[i].val = VI64(I64FromInt(b))
                     /\ trace[i].pos = s + 1
                ELSE IF b \in 70..101
                THEN /\ trace[i].out = "Ok"
                     /\ trace[i].val = VI64(I64FromInt(69 - b))
                     /\ trace[i].pos = s + 1
                ELSE IF s + 1 + w > Len(reader)
                THEN trace[i].out = "UnexpectedEOF"
                ELSE /\ trace[i].out = "Ok"
                     /\ trace[i].pos = s + 1 + w
                     /\ trace[i].val = IF b = I64 THEN VI64(payload)
                                       ELSE VI64(I64FromInt(BigEndianSigned(payload)))
    /\ pc = "decoded" /\ reader = <<43>> => result = [val |-> VI64(I64FromInt(43)), ok |-> TRUE, err |-> ""]
    /\ pc = "decoded" /\ reader = <<62, 44>> => result.ok /\ result.val = VI64(I64FromInt(44))
    /\ pc = "decoded" /\ reader = <<101>> => result.ok /\ result.val = VI64(I64FromInt(-32))
    /\ pc = "decoded" /\ reader = <<62, 223>> => result.ok /\ result.val = VI64(I64FromInt(-33))

\* -32 has been decoded from the one byte 101 as the first element of a list,
\* and the element after it from the very next byte
IntegerDecodingWitness ==
    /\ pc = "decoded"
    /\ result.ok
    /\ \E i \in IntVisits :
          /\ trace[i].hdr = 101
          /\ trace[i].start = 1
          /\ trace[i].val = VI64(I64FromInt(-32))
          /\ \E j \in IntVisits : trace[j].start = 2 /\ trace[j].out = "Ok"

\* the visits that met a reserved byte where a value is expected
ReservedVisits ==
    {i \in EventsOf("Decoder.visit") : trace[i].hdr \in ReservedBytes}

\* C13: a reserved byte (45, 46, 47, 58, 61) where a value is expected makes
\* the visit fail with the syntax error, the cursor right after that byte and
\* no value produced; every enclosing call returns that error with nothing
\* more read, no container calls its end, and decode returns the error.  Of
\* the 256 one-byte inputs exactly the reserved ones give a syntax error.
ReservedSyntaxError ==
    /\ pc = "decoded" =>
        \A i \in ReservedVisits :
            /\ trace[i].out = "Syntax"
            /\ trace[i].pos = trace[i].start + 1
            /\ trace[i].val = <<>>
            /\ \A j \in (i + 1)..Len(trace) :
                  /\ trace[j].out = "Syntax"
                  /\ trace[j].pos = trace[i].pos
                  /\ trace[j].fn \notin {"Decoder.end", "FixedVisitor.end"}
            /\ result = [ok |-> FALSE, val |-> <<>>, err |-> "Syntax"]
    /\ pc = "decoded" /\ wire = NoWire /\ Len(reader) = 1 =>
          (result.err = "Syntax" <=> reader[1] \in ReservedBytes)

\* a reserved byte has been met as the value of a pair of an open map that
\* lies in an open list, a 127 right after it
ReservedSyntaxWitness ==
    /\ pc = "decoded"
    /\ \E i \in ReservedVisits :
          /\ trace[i].start = 4
          /\ trace[i].by = "ValueVisitor"
          /\ reader[1] = LIST /\ reader[2] = DICT
          /\ Len(reader) > 5 /\ reader[6] = TERM
          /\ i + 2 < Len(trace)

\* every encoded value of the wire input w, which starts at byte offset
\* off: the offset of its first byte and the offset right after its last
RECURSIVE Spans(_, _)
Spans(w, off) ==
    {<<off, off + Len(WireBytes(w))>>}
    \cup UNION {Spans(w.items[i], ItemOffset(w, off, i)) : i \in 1..Len(w.items)}

\* the visits that returned a value
OkVisits == {i \in EventsOf("Decoder.visit") : trace[i].out = "Ok"}

\* C14: exact consumption: on a well-formed input, whatever follows it in the
\* byte source, the decode succeeds with the cursor right after the last byte
\* of the value; every value in it, nested or not, is visited exactly once,
\* from its own first byte to right after its own last byte (an open
\* container's terminator included), so each value after another one starts
\* where that one ended.
ExactConsumption ==
    (pc = "decoded" /\ wire # NoWire) =>
        /\ result.ok
        /\ ValueEq(result.val, WireValue(wire))
        /\ pos = Len(WireBytes(wire))
        /\ {<<trace[i].start, trace[i].pos>> : i \in OkVisits} = Spans(wire, 0)
        /\ Cardinality(OkVisits) = Cardinality(Spans(wire, 0))
        /\ \A i \in OkVisits : reader[trace[i].start + 1] = trace[i].hdr

\* a fixed-width integer and a decimal-length string have been decoded back
\* to back as elements of a list, more bytes standing after the list
ExactConsumptionWitness ==
    /\ pc = "decoded"
    /\ wire # NoWire
    /\ result.ok
    /\ Len(reader) > Len(WireBytes(wire))
    /\ wire.form = "olist"
    /\ \E i \in OkVisits, j \in OkVisits :
          /\ trace[i].hdr = I32
          /\ trace[i].start = 1
          /\ trace[j].hdr = 50
          /\ trace[j].start = trace[i].pos
          /\ trace[j].pos = trace[j].start + 4

====
